---- MODULE Spec2Model ----
(***************************************************************************)
(* Model of the BLE transport layer of NiimPrintX                          *)
(* (NiimPrintX/nimmy/bluetooth.py): the peripheral-style transport         *)
(* BluepyBluetoothPrinter, the GATT-client transport BLETransport and the  *)
(* device lookup find_device; and of the command sessions that use them    *)
(* (NiimPrintX/cli/command.py).                                            *)
(***************************************************************************)
EXTENDS Integers, Sequences, FiniteSets, TLC

VARIABLES
    \* ---- BluepyBluetoothPrinter ----
    peripheral,      \* self.peripheral: 0 is None, else the handle held
    characteristic,  \* self.characteristic: 0 is None, else the handle it was resolved from
    bOpen,           \* handles opened by Peripheral(...) on which disconnect() was never called
    bNext,           \* number of handles Peripheral(...) has created so far
    bpc,             \* position of the connect coroutine: idle, try, sleep, settle
    bi,              \* loop variable i of connect
    bOutcomes,       \* outcome kind of every attempt of the most recent connect call
    bWaits,          \* number of asyncio.sleep(delay) calls of the most recent connect call
    bResult,         \* how the most recent connect call ended
    bState,          \* lifecycle state seen by the caller
    bCancelAt,       \* attempts made when disconnect was first called during the
                     \* connect call in flight; -1 when it was not
    bLast,           \* the most recent call on the transport and what it did
    \* ---- BLETransport ----
    gAddress,        \* self.address: 0 is None
    gClient,         \* self.client: 0 is None, else the address the BleakClient was built for
    gConnected,      \* self.client.is_connected (FALSE while there is no client)
    gLast,           \* the most recent call on the transport and what it did
    \* ---- find_device ----
    fDevices,        \* what BleakScanner.discover() returns, in discovery order
    fSelector,       \* the argument device_name_prefix
    fScans,          \* number of BleakScanner.discover() calls made
    fResult,         \* what find_device returned or raised
    \* ---- command-line sessions (cli/command.py) ----
    cCmd,            \* the command run: print, print_text_p15 or info
    cModel,          \* the --model option
    cLinux,          \* platform.system() == "Linux"
    cpc,             \* position in the command: start, find, connect, work, disconnect,
                     \* handler, done
    cPrinter,        \* the local variable printer: unbound, PrinterClient or BluepyPrinterClient
    cConnectOk,      \* printer.connect() returned a true value in this session
    cDisconnects,    \* number of printer.disconnect() calls made
    cCaught,         \* the first error raised inside the try block of the coroutine
    cEscaped,        \* the error that left the coroutine, if any
    cReported,       \* the error last shown by print_error or by the command's logger.info
    cExit            \* exit status of the process: running, 0 or 1

bvars == <<peripheral, characteristic, bOpen, bNext, bpc, bi, bOutcomes, bWaits,
           bResult, bState, bCancelAt, bLast>>

gvars == <<gAddress, gClient, gConnected, gLast>>

fvars == <<fDevices, fSelector, fScans, fResult>>

cvars == <<cCmd, cModel, cLinux, cpc, cPrinter, cConnectOk, cDisconnects, cCaught,
           cEscaped, cReported, cExit>>

vars == <<bvars, gvars, fvars, cvars>>

\* Number of Peripheral handles the model lets the platform create.
MaxHandles == 4

\* retries = 5 in BluepyBluetoothPrinter.connect
retries == 5

Stages == {"open", "mtu", "char"}

\* What one pass through the try block can do: succeed, or raise at
\* Peripheral(...), setMTU(...) or getCharacteristics(...)[0], either with
\* BTLEDisconnectError (transient) or with any other exception (other).
AttemptOutcomes ==
    {[kind |-> "ok", stage |-> "char"]}
        \cup [kind : {"transient", "other"}, stage : Stages]

NoCall == [op |-> "none", raised |-> FALSE, platform |-> FALSE,
           before |-> "Disconnected", inflight |-> FALSE, prev |-> "none",
           platformRaised |-> FALSE, opened |-> 0]

BInit ==
    /\ peripheral = 0
    /\ characteristic = 0
    /\ bOpen = {}
    /\ bNext = 0
    /\ bpc = "idle"
    /\ bi = 0
    /\ bOutcomes = <<>>
    /\ bWaits = 0
    /\ bResult = "none"
    /\ bState = "Disconnected"
    /\ bCancelAt = -1
    /\ bLast = NoCall

\* A step of the connect coroutine, as the caller's record of the last call.
ConnectCall == [NoCall EXCEPT !.op = "connect"]

\* connect() is called: retries = 5, delay = 2, the loop starts at i = 0.
BConnect ==
    /\ bpc = "idle"
    /\ bpc' = "try"
    /\ bi' = 0
    /\ bOutcomes' = <<>>
    /\ bWaits' = 0
    /\ bResult' = "running"
    /\ bState' = "Connecting"
    /\ bCancelAt' = -1
    /\ bLast' = ConnectCall
    /\ UNCHANGED <<peripheral, characteristic, bOpen, bNext>>
    /\ UNCHANGED <<gvars, fvars, cvars>>

\* The handle Peripheral(...) returns in a pass with outcome o; 0 when it raises.
HandleOpened(o) ==
    IF o.kind # "ok" /\ o.stage = "open" THEN 0 ELSE bNext + 1

\* The handle self.peripheral holds after the try block ran with outcome o.
PeripheralAfter(o) ==
    IF HandleOpened(o) = 0 THEN peripheral ELSE HandleOpened(o)

\* The value of self.characteristic after the try block ran with outcome o.
CharacteristicAfter(o) ==
    IF o.kind = "ok" THEN HandleOpened(o) ELSE characteristic

\* PcAfterAttempt without the return of line 67: a successful attempt falls
\* through to the retry delay and the next iteration.
PcAfterAttemptNoReturn(o, i) ==
    CASE o.kind = "transient" -> IF i < retries - 1 THEN "sleep" ELSE "idle"
      [] OTHER -> "sleep"

\* Where the coroutine goes after an attempt with outcome o at loop index i.
PcAfterAttempt(o, i) ==
    CASE o.kind = "ok" -> "settle"
      [] o.kind = "transient" -> IF i < retries - 1 THEN "sleep" ELSE "idle"
      [] OTHER -> "sleep"

\* What connect raises when an attempt with outcome o at loop index i ends the call.
RaisedAfterAttempt(o, i) ==
    IF o.kind = "transient" /\ ~(i < retries - 1)
    THEN "BTLEDisconnectError" ELSE "running"

\* One pass through the try block of the retry loop (lines 60-77), up to the
\* next await.
BAttempt(o) ==
    /\ bpc = "try"
    /\ HandleOpened(o) # 0 => bNext < MaxHandles
    /\ peripheral' = PeripheralAfter(o)
    /\ characteristic' = CharacteristicAfter(o)
    /\ bOpen' = IF HandleOpened(o) = 0 THEN bOpen ELSE bOpen \cup {HandleOpened(o)}
    /\ bNext' = IF HandleOpened(o) = 0 THEN bNext ELSE bNext + 1
    /\ bOutcomes' = Append(bOutcomes, o.kind)
    /\ bpc' = PcAfterAttempt(o, bi)
    /\ bWaits' = IF PcAfterAttempt(o, bi) = "sleep" THEN bWaits + 1 ELSE bWaits
    /\ bResult' = RaisedAfterAttempt(o, bi)
    /\ bState' = IF PcAfterAttempt(o, bi) = "idle" THEN "Failed" ELSE bState
    /\ bLast' = [ConnectCall EXCEPT !.opened = HandleOpened(o)]
    /\ UNCHANGED <<bi, bCancelAt>>
    /\ UNCHANGED <<gvars, fvars, cvars>>

\* BSleepDone with the loop bound off by one: range(retries + 1).
BSleepDoneOneMore ==
    /\ bpc = "sleep"
    /\ bi' = bi + 1
    /\ bpc' = IF bi + 1 < retries + 1 THEN "try" ELSE "idle"
    /\ bResult' = IF bi + 1 < retries + 1 THEN bResult ELSE "ConnectionError"
    /\ bState' = IF bi + 1 < retries + 1 THEN bState ELSE "Failed"
    /\ bLast' = ConnectCall
    /\ UNCHANGED <<peripheral, characteristic, bOpen, bNext, bOutcomes, bWaits, bCancelAt>>
    /\ UNCHANGED <<gvars, fvars, cvars>>

\* asyncio.sleep(delay) returns: the for loop moves to the next i, or ends
\* and line 78 raises ConnectionError.
BSleepDone ==
    /\ bpc = "sleep"
    /\ bi' = bi + 1
    /\ bpc' = IF bi + 1 < retries THEN "try" ELSE "idle"
    /\ bResult' = IF bi + 1 < retries THEN bResult ELSE "ConnectionError"
    /\ bState' = IF bi + 1 < retries THEN bState ELSE "Failed"
    /\ bLast' = ConnectCall
    /\ UNCHANGED <<peripheral, characteristic, bOpen, bNext, bOutcomes, bWaits, bCancelAt>>
    /\ UNCHANGED <<gvars, fvars, cvars>>

\* asyncio.sleep(0.5) after a successful attempt returns: connect returns.
BSettleDone ==
    /\ bpc = "settle"
    /\ bpc' = "idle"
    /\ bResult' = "returned"
    /\ bState' = "Connected"
    /\ bLast' = ConnectCall
    /\ UNCHANGED <<peripheral, characteristic, bOpen, bNext, bi, bOutcomes, bWaits, bCancelAt>>
    /\ UNCHANGED <<gvars, fvars, cvars>>

\* disconnect(): runs without awaiting, so it is one step wherever the
\* connect coroutine is suspended. platformRaises: peripheral.disconnect() raises.
BDisconnect(platformRaises) ==
    /\ bpc # "try"
    /\ peripheral' = 0
    /\ characteristic' = IF peripheral # 0 THEN 0 ELSE characteristic
    /\ bOpen' = bOpen \ {peripheral}
    /\ bState' = IF bpc = "idle" THEN "Disconnected" ELSE bState
    /\ bCancelAt' = IF bpc # "idle" /\ bCancelAt = -1 THEN Len(bOutcomes) ELSE bCancelAt
    /\ bLast' = [op |-> "disconnect", raised |-> FALSE, platform |-> (peripheral # 0),
                 before |-> bState, inflight |-> (bpc # "idle"), prev |-> bLast.op,
                 platformRaised |-> (peripheral # 0 /\ platformRaises), opened |-> 0]
    /\ UNCHANGED <<bNext, bpc, bi, bOutcomes, bWaits, bResult>>
    /\ UNCHANGED <<gvars, fvars, cvars>>

\* write(data): runs without awaiting. platformRaises: characteristic.write raises.
BWrite(platformRaises) ==
    /\ bpc # "try"
    /\ bLast' = [op |-> "write",
                 raised |-> (characteristic = 0 \/ platformRaises),
                 platform |-> (characteristic # 0),
                 before |-> bState, inflight |-> (bpc # "idle"), prev |-> bLast.op,
                 platformRaised |-> (characteristic # 0 /\ platformRaises), opened |-> 0]
    /\ UNCHANGED <<peripheral, characteristic, bOpen, bNext, bpc, bi, bOutcomes,
                   bWaits, bResult, bState, bCancelAt>>
    /\ UNCHANGED <<gvars, fvars, cvars>>

NextBluepy ==
    \/ BConnect
    \/ \E o \in AttemptOutcomes : BAttempt(o)
    \/ BSleepDone
    \/ BSettleDone
    \/ \E r \in BOOLEAN : BDisconnect(r)
    \/ \E r \in BOOLEAN : BWrite(r)

(***************************************************************************)
(* BLETransport                                                            *)
(***************************************************************************)

\* Number of distinct device addresses the model passes to BLETransport.
MaxAddrs == 2

Addrs == 1..MaxAddrs

\* BleakClient.connect(): returns True, returns False, or raises.
ConnectOutcomes == {"True", "False", "raise"}

\* BleakClient.disconnect(): returns, or raises and leaves is_connected
\* either way.
DisconnectOutcomes == {"ok", "raise_down", "raise_up"}

GNoCall == [op |-> "none", arg |-> 0, raised |-> FALSE, platform |-> FALSE, before |-> FALSE,
            prev |-> "none", platformRaised |-> FALSE, ret |-> "None"]

\* BLETransport(address)
GInit ==
    /\ gAddress \in {0} \cup Addrs
    /\ gClient = 0
    /\ gConnected = FALSE
    /\ gLast = GNoCall

\* is_connected after BleakClient.disconnect() ended with outcome d.
ConnectedAfterDisconnect(d) == gConnected /\ d = "raise_up"

\* __aenter__
GAenter(c) ==
    /\ gClient' = IF gAddress # 0 THEN gAddress ELSE gClient
    /\ gConnected' = IF gAddress # 0 THEN c = "True" ELSE gConnected
    /\ gLast' = [op |-> "aenter", arg |-> 0, raised |-> (gAddress # 0 /\ c # "True"),
                 platform |-> (gAddress # 0), before |-> gConnected, prev |-> gLast.op,
                 platformRaised |-> (gAddress # 0 /\ c = "raise"),
                 ret |-> IF gAddress # 0 /\ c # "True" THEN "None" ELSE "self"]
    /\ UNCHANGED gAddress
    /\ UNCHANGED <<bvars, fvars, cvars>>

\* __aexit__
GAexit(d) ==
    /\ gConnected' = IF gClient # 0 THEN ConnectedAfterDisconnect(d) ELSE gConnected
    /\ gLast' = [op |-> "aexit", arg |-> 0, raised |-> (gClient # 0 /\ d # "ok"),
                 platform |-> (gClient # 0), before |-> gConnected, prev |-> gLast.op,
                 platformRaised |-> (gClient # 0 /\ d # "ok"), ret |-> "None"]
    /\ UNCHANGED <<gAddress, gClient>>
    /\ UNCHANGED <<bvars, fvars, cvars>>

\* connect(address)
GConnect(a, c) ==
    /\ gClient' = IF gClient = 0 THEN a ELSE gClient
    /\ gConnected' = IF ~gConnected THEN c = "True" ELSE gConnected
    /\ gLast' = [op |-> "connect", arg |-> a, raised |-> (~gConnected /\ c = "raise"),
                 platform |-> ~gConnected, before |-> gConnected, prev |-> gLast.op,
                 platformRaised |-> (~gConnected /\ c = "raise"),
                 ret |-> IF gConnected THEN "False"
                         ELSE IF c = "raise" THEN "None" ELSE c]
    /\ UNCHANGED gAddress
    /\ UNCHANGED <<bvars, fvars, cvars>>

\* disconnect()
GDisconnect(d) ==
    /\ gConnected' = IF gClient # 0 /\ gConnected
                     THEN ConnectedAfterDisconnect(d) ELSE gConnected
    /\ gLast' = [op |-> "disconnect", arg |-> 0,
                 raised |-> (gClient # 0 /\ gConnected /\ d # "ok"),
                 platform |-> (gClient # 0 /\ gConnected),
                 before |-> gConnected, prev |-> gLast.op,
                 platformRaised |-> (gClient # 0 /\ gConnected /\ d # "ok"),
                 ret |-> "None"]
    /\ UNCHANGED <<gAddress, gClient>>
    /\ UNCHANGED <<bvars, fvars, cvars>>

\* write(data, char_uuid). platformRaises: write_gatt_char raises.
GWrite(platformRaises) ==
    /\ gLast' = [op |-> "write", arg |-> 0,
                 raised |-> (~(gClient # 0 /\ gConnected) \/ platformRaises),
                 platform |-> (gClient # 0 /\ gConnected),
                 before |-> gConnected, prev |-> gLast.op,
                 platformRaised |-> (gClient # 0 /\ gConnected /\ platformRaises),
                 ret |-> "None"]
    /\ UNCHANGED <<gAddress, gClient, gConnected>>
    /\ UNCHANGED <<bvars, fvars, cvars>>

\* start_notification guarded by `if self.client:` alone.
GStartNotificationClientOnly(platformRaises) ==
    /\ gLast' = [op |-> "start_notification", arg |-> 0,
                 raised |-> (gClient = 0 \/ platformRaises),
                 platform |-> (gClient # 0),
                 before |-> gConnected, prev |-> gLast.op,
                 platformRaised |-> (gClient # 0 /\ platformRaises),
                 ret |-> "None"]
    /\ UNCHANGED <<gAddress, gClient, gConnected>>
    /\ UNCHANGED <<bvars, fvars, cvars>>

\* start_notification(char_uuid, handler). platformRaises: start_notify raises.
GStartNotification(platformRaises) ==
    /\ gLast' = [op |-> "start_notification", arg |-> 0,
                 raised |-> (~(gClient # 0 /\ gConnected) \/ platformRaises),
                 platform |-> (gClient # 0 /\ gConnected),
                 before |-> gConnected, prev |-> gLast.op,
                 platformRaised |-> (gClient # 0 /\ gConnected /\ platformRaises),
                 ret |-> "None"]
    /\ UNCHANGED <<gAddress, gClient, gConnected>>
    /\ UNCHANGED <<bvars, fvars, cvars>>

\* stop_notification(char_uuid). platformRaises: stop_notify raises.
GStopNotification(platformRaises) ==
    /\ gLast' = [op |-> "stop_notification", arg |-> 0,
                 raised |-> (~(gClient # 0 /\ gConnected) \/ platformRaises),
                 platform |-> (gClient # 0 /\ gConnected),
                 before |-> gConnected, prev |-> gLast.op,
                 platformRaised |-> (gClient # 0 /\ gConnected /\ platformRaises),
                 ret |-> "None"]
    /\ UNCHANGED <<gAddress, gClient, gConnected>>
    /\ UNCHANGED <<bvars, fvars, cvars>>

NextBLE ==
    \/ \E c \in ConnectOutcomes : GAenter(c)
    \/ \E d \in DisconnectOutcomes : GAexit(d)
    \/ \E a \in Addrs, c \in ConnectOutcomes : GConnect(a, c)
    \/ \E d \in DisconnectOutcomes : GDisconnect(d)
    \/ \E r \in BOOLEAN : GWrite(r)
    \/ \E r \in BOOLEAN : GStartNotification(r)
    \/ \E r \in BOOLEAN : GStopNotification(r)

(***************************************************************************)
(* find_device                                                             *)
(***************************************************************************)

\* Longest discovery result the model draws.
MaxDevices == 2

\* str.lower() on one character, for the letters the model uses.
LowerChar(c) ==
    CASE c = "A" -> "a" [] c = "B" -> "b" [] c = "D" -> "d" [] c = "E" -> "e"
      [] c = "P" -> "p"
      [] OTHER -> c

\* str.lower()
Lower(s) == [k \in 1..Len(s) |-> LowerChar(s[k])]

\* str.startswith(prefix)
StartsWith(s, prefix) ==
    /\ Len(prefix) <= Len(s)
    /\ \A k \in 1..Len(prefix) : s[k] = prefix[k]

\* P15_MAC_ADDRESS = "03:0D:7A:D6:5E:B1"
P15_MAC_ADDRESS ==
    <<"0", "3", ":", "0", "D", ":", "7", "A", ":", "D", "6", ":", "5", "E", ":", "B", "1">>

\* Another device's address.
OtherAddress ==
    <<"1", "1", ":", "2", "2", ":", "3", "3", ":", "4", "4", ":", "5", "5", ":", "6", "6">>

\* The same address as P15_MAC_ADDRESS with its third octet's hex letter in lower case.
MixedCaseP15Address == [P15_MAC_ADDRESS EXCEPT ![8] = "a"]

Addresses == {P15_MAC_ADDRESS, Lower(P15_MAC_ADDRESS), MixedCaseP15Address, OtherAddress}

\* device.name; the empty sequence stands for None (falsy, like "").
Names == {<<>>, <<"D", "1">>, <<"d", "1", "1">>, <<"B", "2">>}

DeviceRecords == [name : Names, address : Addresses]

\* device_name_prefix: a string, or None (the default).
Selectors ==
    {[some |-> FALSE, s |-> <<>>]}
        \cup [some : {TRUE}, s : {<<"p", "1", "5">>, <<"d", "1">>, <<"D">>, <<"b", "2", "1">>}]

SeqsUpTo(S, n) == UNION {[1..k -> S] : k \in 0..n}

NoResult == [kind |-> "none", index |-> 0]

FInit ==
    /\ fDevices \in SeqsUpTo(DeviceRecords, MaxDevices)
    /\ fSelector \in Selectors
    /\ fScans = 0
    /\ fResult = NoResult

\* if device.address == P15_MAC_ADDRESS
AddressMatches(device) == device.address = P15_MAC_ADDRESS

\* The loop of lines 106-109 from index k on.
RECURSIVE ScanP15(_, _)
ScanP15(devices, k) ==
    IF k > Len(devices) THEN [kind |-> "BLEException", index |-> 0]
    ELSE IF AddressMatches(devices[k]) THEN [kind |-> "device", index |-> k]
    ELSE ScanP15(devices, k + 1)

\* ScanPrefix comparing the name as advertised, without name.lower().
RECURSIVE ScanPrefixCaseSensitive(_, _, _)
ScanPrefixCaseSensitive(devices, sel, k) ==
    IF k > Len(devices) THEN [kind |-> "BLEException", index |-> 0]
    ELSE IF devices[k].name = <<>> THEN ScanPrefixCaseSensitive(devices, sel, k + 1)
    ELSE IF ~sel.some THEN [kind |-> "AttributeError", index |-> 0]
    ELSE IF StartsWith(devices[k].name, Lower(sel.s)) THEN [kind |-> "device", index |-> k]
    ELSE ScanPrefixCaseSensitive(devices, sel, k + 1)

\* ScanPrefix without the `device.name and` guard: name.lower() is called on
\* a missing name.
RECURSIVE ScanPrefixNoNameGuard(_, _, _)
ScanPrefixNoNameGuard(devices, sel, k) ==
    IF k > Len(devices) THEN [kind |-> "BLEException", index |-> 0]
    ELSE IF devices[k].name = <<>> THEN [kind |-> "AttributeError", index |-> 0]
    ELSE IF ~sel.some THEN [kind |-> "AttributeError", index |-> 0]
    ELSE IF StartsWith(Lower(devices[k].name), Lower(sel.s)) THEN [kind |-> "device", index |-> k]
    ELSE ScanPrefixNoNameGuard(devices, sel, k + 1)

\* The loop of lines 111-114 from index k on; a None prefix fails at
\* device_name_prefix.lower() as soon as a device with a name is met.
RECURSIVE ScanPrefix(_, _, _)
ScanPrefix(devices, sel, k) ==
    IF k > Len(devices) THEN [kind |-> "BLEException", index |-> 0]
    ELSE IF devices[k].name = <<>> THEN ScanPrefix(devices, sel, k + 1)
    ELSE IF ~sel.some THEN [kind |-> "AttributeError", index |-> 0]
    ELSE IF StartsWith(Lower(devices[k].name), Lower(sel.s)) THEN [kind |-> "device", index |-> k]
    ELSE ScanPrefix(devices, sel, k + 1)

\* find_device(device_name_prefix) over the discovery result devices.
FindDeviceResult(devices, sel) ==
    IF sel.some /\ sel.s = <<"p", "1", "5">>
    THEN ScanP15(devices, 1)
    ELSE ScanPrefix(devices, sel, 1)

\* find_device scanning a second time when the first pass selects nothing.
FindDeviceRescan ==
    /\ fResult = NoResult
    /\ fScans' = IF FindDeviceResult(fDevices, fSelector).kind = "BLEException"
                  THEN fScans + 2 ELSE fScans + 1
    /\ fResult' = FindDeviceResult(fDevices, fSelector)
    /\ UNCHANGED <<fDevices, fSelector>>
    /\ UNCHANGED <<bvars, gvars, cvars>>

\* One call of find_device: one discovery pass, then the selection.
FindDevice ==
    /\ fResult = NoResult
    /\ fScans' = fScans + 1
    /\ fResult' = FindDeviceResult(fDevices, fSelector)
    /\ UNCHANGED <<fDevices, fSelector>>
    /\ UNCHANGED <<bvars, gvars, cvars>>

NextFind == FindDevice

(***************************************************************************)
(* Command-line sessions: print_command/_print, print_text_p15_command/    *)
(* _print_text_p15 and info_command/_info of cli/command.py.  The printer  *)
(* client's connect, print, get_info and disconnect are calls whose        *)
(* outcome the session cannot choose.                                      *)
(***************************************************************************)

Commands == {"print", "print_text_p15", "info"}

\* click.Choice(["b1", "b18", "b21", "d11", "d110", "p15"]): one model of
\* each width class, and p15.
Models == {"b1", "d110", "p15"}

CInit ==
    /\ cCmd \in Commands
    /\ cModel \in Models
    /\ cCmd = "print_text_p15" => cModel = "p15"
    /\ cLinux \in BOOLEAN
    /\ cpc = "start"
    /\ cPrinter = "unbound"
    /\ cConnectOk = FALSE
    /\ cDisconnects = 0
    /\ cCaught = "none"
    /\ cEscaped = "none"
    /\ cReported = "none"
    /\ cExit = "running"

\* The command function up to asyncio.run: print_command opens and checks
\* the image inside its try block; the other two commands go straight on.
CStart(imageOk) ==
    /\ cpc = "start"
    /\ cpc' = IF cCmd = "print" /\ ~imageOk THEN "done" ELSE "find"
    /\ cReported' = IF cCmd = "print" /\ ~imageOk THEN "ImageError" ELSE cReported
    /\ cExit' = IF cCmd = "print" /\ ~imageOk THEN "0" ELSE cExit
    /\ UNCHANGED <<cCmd, cModel, cLinux, cPrinter, cConnectOk, cDisconnects, cCaught,
                   cEscaped>>
    /\ UNCHANGED <<bvars, gvars, fvars>>

\* The client class the session constructs once the device is found.
PrinterClass ==
    IF cCmd = "print_text_p15" THEN "BluepyPrinterClient"
    ELSE IF cLinux /\ cModel = "p15" THEN "BluepyPrinterClient"
    ELSE "PrinterClient"

\* device = await find_device(...), then the construction of the client.
CFind(found) ==
    /\ cpc = "find"
    /\ cpc' = IF found THEN "connect" ELSE "handler"
    /\ cPrinter' = IF found THEN PrinterClass ELSE cPrinter
    /\ cCaught' = IF found THEN cCaught ELSE "BLEException"
    /\ UNCHANGED <<cCmd, cModel, cLinux, cConnectOk, cDisconnects, cEscaped, cReported,
                   cExit>>
    /\ UNCHANGED <<bvars, gvars, fvars>>

\* await printer.connect(): returns a true or a false value, or raises. _print
\* raises NotImplementedError right after it for a BluepyPrinterClient.
CConnect(c) ==
    /\ cpc = "connect"
    /\ cConnectOk' = (c = "True")
    /\ cpc' = IF c = "raise" THEN "handler"
              ELSE IF cCmd = "print" /\ cPrinter = "BluepyPrinterClient" THEN "handler"
              ELSE "work"
    /\ cCaught' = IF c = "raise" THEN "ConnectError"
                  ELSE IF cCmd = "print" /\ cPrinter = "BluepyPrinterClient"
                       THEN "NotImplementedError"
                  ELSE cCaught
    /\ UNCHANGED <<cCmd, cModel, cLinux, cPrinter, cDisconnects, cEscaped, cReported, cExit>>
    /\ UNCHANGED <<bvars, gvars, fvars>>

\* print_image / print_text_bluepy / the three get_info calls.
CWork(ok) ==
    /\ cpc = "work"
    /\ cpc' = IF ok THEN "disconnect" ELSE "handler"
    /\ cCaught' = IF ok THEN cCaught ELSE "PrinterError"
    /\ UNCHANGED <<cCmd, cModel, cLinux, cPrinter, cConnectOk, cDisconnects, cEscaped,
                   cReported, cExit>>
    /\ UNCHANGED <<bvars, gvars, fvars>>

\* await printer.disconnect() at the end of the try block.
CDisconnect(ok) ==
    /\ cpc = "disconnect"
    /\ cDisconnects' = cDisconnects + 1
    /\ cpc' = IF ok THEN "done" ELSE "handler"
    /\ cCaught' = IF ok THEN cCaught ELSE "DisconnectError"
    /\ cExit' = IF ok THEN "0" ELSE cExit
    /\ UNCHANGED <<cCmd, cModel, cLinux, cPrinter, cConnectOk, cEscaped, cReported>>
    /\ UNCHANGED <<bvars, gvars, fvars>>

\* Whether the except block of the coroutine calls printer.disconnect().
HandlerDisconnects == cCmd # "info"

\* The error that leaves the except block when its disconnect call is made
\* with outcome ok: none, UnboundLocalError for a printer never assigned, or
\* the error of the disconnect call.
HandlerRaises(ok) ==
    IF ~HandlerDisconnects THEN "none"
    ELSE IF cPrinter = "unbound" THEN "UnboundLocalError"
    ELSE IF ok THEN "none" ELSE "DisconnectError"

\* The except block of the coroutine, and what the command function does
\* with an error that leaves it: print_command logs it and returns, the
\* other two commands let it end the process.
CHandler(ok) ==
    /\ cpc = "handler"
    /\ cpc' = "done"
    /\ cDisconnects' = IF HandlerDisconnects /\ cPrinter # "unbound"
                       THEN cDisconnects + 1 ELSE cDisconnects
    /\ cEscaped' = HandlerRaises(ok)
    /\ cReported' = IF cCmd = "print"
                    THEN (IF HandlerRaises(ok) = "none" THEN cReported ELSE HandlerRaises(ok))
                    ELSE cCaught
    /\ cExit' = IF cCmd # "print" /\ HandlerRaises(ok) # "none" THEN "1" ELSE "0"
    /\ UNCHANGED <<cCmd, cModel, cLinux, cPrinter, cConnectOk, cCaught>>
    /\ UNCHANGED <<bvars, gvars, fvars>>

NextCli ==
    \/ \E ok \in BOOLEAN : CStart(ok)
    \/ \E found \in BOOLEAN : CFind(found)
    \/ \E c \in ConnectOutcomes : CConnect(c)
    \/ \E ok \in BOOLEAN : CWork(ok)
    \/ \E ok \in BOOLEAN : CDisconnect(ok)
    \/ \E ok \in BOOLEAN : CHandler(ok)

\* No command-line session is running.
CIdle ==
    /\ cCmd = "info"
    /\ cModel = "d110"
    /\ cLinux = FALSE
    /\ cpc = "done"
    /\ cPrinter = "unbound"
    /\ cConnectOk = FALSE
    /\ cDisconnects = 0
    /\ cCaught = "none"
    /\ cEscaped = "none"
    /\ cReported = "none"
    /\ cExit = "0"

(***************************************************************************)
(* Specifications                                                          *)
(***************************************************************************)

FIdle ==
    /\ fDevices = <<>>
    /\ fSelector = [some |-> FALSE, s |-> <<>>]
    /\ fScans = 0
    /\ fResult = NoResult

GIdle ==
    /\ gAddress = 0
    /\ gClient = 0
    /\ gConnected = FALSE
    /\ gLast = GNoCall

InitBluepy == BInit /\ GIdle /\ FIdle /\ CIdle

InitBLE == BInit /\ GInit /\ FIdle /\ CIdle

InitFind == BInit /\ GIdle /\ FInit /\ CIdle

InitCli == BInit /\ GIdle /\ FIdle /\ CInit

SpecCli == InitCli /\ [][NextCli]_vars

SpecBluepy == InitBluepy /\ [][NextBluepy]_vars

\* The connect coroutine keeps running: every blocking platform call of an
\* attempt returns or raises, and every asyncio.sleep returns.
SpecBluepyFair ==
    /\ SpecBluepy
    /\ WF_vars(\E o \in AttemptOutcomes : BAttempt(o))
    /\ WF_vars(BSleepDone)
    /\ WF_vars(BSettleDone)

SpecBLE == InitBLE /\ [][NextBLE]_vars

SpecFind == InitFind /\ [][NextFind]_vars

(***************************************************************************)
(* Properties                                                              *)
(***************************************************************************)

AllTransient(outcomes) == \A k \in 1..Len(outcomes) : outcomes[k] = "transient"

\* C1: on both transports, a write made while the transport is not Connected
\* (never connected, disconnected, or its most recent connect failed) raises
\* and makes no platform write call.
C1_WriteRejectedWhenNotConnected ==
    /\ (bLast.op = "write" /\ ~bLast.inflight /\ bLast.before # "Connected")
            => (bLast.raised /\ ~bLast.platform)
    /\ (gLast.op = "write" /\ ~gLast.before)
            => (gLast.raised /\ ~gLast.platform)

\* C2: a connect call whose every attempt fails transiently makes exactly
\* retries attempts and then fails with the wrapping connect error, not with
\* the raw BTLEDisconnectError.
C2_ExhaustedTransientWrapped ==
    (bResult \notin {"none", "running"} /\ bOutcomes # <<>> /\ AllTransient(bOutcomes))
        => (Len(bOutcomes) = retries /\ bResult = "ConnectionError")

\* C3: for every k in 1..retries, when the first k-1 attempts fail
\* transiently and attempt k succeeds, connect makes exactly k attempts, makes
\* no attempt after the successful one, and returns normally.
C3_SuccessAtAttemptK ==
    \A k \in 1..retries :
        (/\ Len(bOutcomes) >= k
         /\ bOutcomes[k] = "ok"
         /\ AllTransient(SubSeq(bOutcomes, 1, k - 1)))
            => /\ Len(bOutcomes) = k
               /\ bpc \in {"settle", "idle"}
               /\ bpc = "idle" => bResult = "returned"

\* C3 witness: two transient failures, success on the third attempt, connect returned.
C3_Witness ==
    /\ bOutcomes = <<"transient", "transient", "ok">>
    /\ bpc = "idle"
    /\ bResult = "returned"

\* C4: on both transports a disconnect that directly follows a disconnect
\* makes no platform disconnect call and does not raise, and so does a
\* disconnect on a transport that never held a handle.
C4_SecondDisconnectNoOp ==
    /\ (bLast.op = "disconnect" /\ bLast.prev = "disconnect")
            => (~bLast.platform /\ ~bLast.raised)
    /\ (gLast.op = "disconnect" /\ gLast.prev = "disconnect")
            => (~gLast.platform /\ ~gLast.raised)
    /\ (bLast.op = "disconnect" /\ bNext = 0) => (~bLast.platform /\ ~bLast.raised)
    /\ (gLast.op = "disconnect" /\ gClient = 0) => (~gLast.platform /\ ~gLast.raised)

\* C5: on both transports, when the platform disconnect call raises,
\* disconnect (and __aexit__) does not raise and leaves the transport without
\* a handle and not connected.
C5_DisconnectErrorSwallowed ==
    /\ (bLast.op = "disconnect" /\ bLast.platformRaised)
            => (~bLast.raised /\ peripheral = 0 /\ characteristic = 0)
    /\ (gLast.op \in {"disconnect", "aexit"} /\ gLast.platformRaised)
            => (~gLast.raised /\ gClient = 0 /\ ~gConnected)

\* The connect coroutine has just come out of a failed attempt, or has just
\* ended the whole call with an error.
AfterFailedAttempt ==
    /\ bLast.op = "connect"
    /\ bOutcomes # <<>>
    /\ bOutcomes[Len(bOutcomes)] # "ok"
    /\ bpc \in {"sleep", "idle"}

\* C6: whenever a connect attempt or a whole connect call fails, the handle
\* that attempt opened has been disconnected and the transport holds no handle.
C6_FailedConnectReleasesHandle ==
    /\ AfterFailedAttempt => (bLast.opened \notin bOpen /\ peripheral = 0)
    /\ (gLast.op \in {"aenter", "connect"} /\ (gLast.raised \/ gLast.ret = "False")
            /\ gLast.platform)
            => gClient = 0

\* C7: once disconnect is called while a connect call is in flight, the retry
\* loop makes no further attempt, the call ends with a cancelled connect
\* error, and the transport is not Connected afterwards.
C7_DisconnectCancelsConnect ==
    bCancelAt >= 0
        => /\ Len(bOutcomes) = bCancelAt
           /\ bpc = "idle" => (bResult = "cancelled" /\ bState # "Connected"
                                /\ characteristic = 0)

\* C8: a write made while a connect call is in flight raises and makes no
\* platform write call.
C8_WriteDuringConnectRejected ==
    (bLast.op = "write" /\ bLast.inflight) => (bLast.raised /\ ~bLast.platform)

\* C9: an attempt that fails with a non-transient error ends the connect
\* call at once: it is the last attempt and no retry delay follows it.
C9_NonTransientAborts ==
    \A k \in 1..Len(bOutcomes) :
        bOutcomes[k] = "other" => (k = Len(bOutcomes) /\ bpc = "idle")

\* The records of devices whose address equals P15_MAC_ADDRESS when both
\* are lower-cased.
P15Matches(devices) ==
    {k \in 1..Len(devices) : Lower(devices[k].address) = Lower(P15_MAC_ADDRESS)}

\* C10: for the "p15" selector find_device returns the first record, in
\* discovery order, whose address equals P15_MAC_ADDRESS case-insensitively,
\* with or without a name.
C10_P15CaseInsensitive ==
    (fResult # NoResult /\ fSelector = [some |-> TRUE, s |-> <<"p", "1", "5">>]
            /\ P15Matches(fDevices) # {})
        => /\ fResult.kind = "device"
           /\ fResult.index \in P15Matches(fDevices)
           /\ \A k \in P15Matches(fDevices) : fResult.index <= k

\* A selector that is a name prefix: a string other than "p15".
IsPrefixSelector(sel) == sel.some /\ sel.s # <<"p", "1", "5">>

\* The records whose name, lower-cased, starts with the lower-cased prefix.
PrefixMatches(devices, sel) ==
    {k \in 1..Len(devices) :
        /\ devices[k].name # <<>>
        /\ StartsWith(Lower(devices[k].name), Lower(sel.s))}

\* C11: for a name-prefix selector find_device returns the first record, in
\* discovery order, whose lower-cased name starts with the lower-cased prefix.
C11_PrefixFirstMatch ==
    (fResult # NoResult /\ IsPrefixSelector(fSelector)
            /\ PrefixMatches(fDevices, fSelector) # {})
        => /\ fResult.kind = "device"
           /\ fResult.index \in PrefixMatches(fDevices, fSelector)
           /\ \A k \in PrefixMatches(fDevices, fSelector) : fResult.index <= k

\* C11 witness: the second record is returned after a named record that does
\* not match, although its name differs from the prefix in case.
C11_Witness ==
    /\ IsPrefixSelector(fSelector)
    /\ fResult = [kind |-> "device", index |-> 2]
    /\ fDevices[1].name # <<>>
    /\ fDevices[2].name # Lower(fDevices[2].name)

\* C12: for a name-prefix selector a record without a name is never
\* returned, and when no record has a name the call fails with the
\* device-not-found error.
C12_NamelessNeverSelected ==
    (fResult # NoResult /\ IsPrefixSelector(fSelector))
        => /\ fResult.kind = "device" => fDevices[fResult.index].name # <<>>
           /\ (\A k \in 1..Len(fDevices) : fDevices[k].name = <<>>)
                => fResult.kind = "BLEException"

\* C12 witness: the only record has no name and the call failed with the
\* device-not-found error.
C12_Witness ==
    /\ IsPrefixSelector(fSelector)
    /\ Len(fDevices) = 1
    /\ fDevices[1].name = <<>>
    /\ fResult.kind = "BLEException"

\* No record matches the selector: no address equal to P15_MAC_ADDRESS up to
\* case for "p15", no name starting with the prefix otherwise.
NoMatch(devices, sel) ==
    IF IsPrefixSelector(sel) THEN PrefixMatches(devices, sel) = {}
    ELSE P15Matches(devices) = {}

\* C13: when the discovery pass observes no advertisement matching the
\* selector (a prefix or "p15"), and in particular none at all, find_device
\* fails with the device-not-found error and no other, after exactly one
\* discovery pass.
C13_NotFoundOnly ==
    /\ (fResult # NoResult /\ fSelector.some /\ NoMatch(fDevices, fSelector))
            => (fResult.kind = "BLEException" /\ fScans = 1)
    /\ (fResult # NoResult /\ fDevices = <<>>)
            => (fResult.kind = "BLEException" /\ fScans = 1)

\* C13 witness: two advertisements, none matching, and the call failed.
C13_Witness ==
    /\ fSelector.some
    /\ Len(fDevices) = 2
    /\ NoMatch(fDevices, fSelector)
    /\ fResult.kind = "BLEException"
    /\ fScans = 1

\* C14: on the GATT-client transport start_notification and
\* stop_notification called while the transport is not connected raise and
\* make no platform start_notify / stop_notify call.
C14_NotifyRejectedWhenNotConnected ==
    (gLast.op \in {"start_notification", "stop_notification"} /\ ~gLast.before)
        => (gLast.raised /\ ~gLast.platform)

\* C14 witness: start_notification was rejected on a transport that holds a
\* client whose link is down.
C14_Witness ==
    /\ gLast.op = "start_notification"
    /\ gClient # 0
    /\ ~gLast.before
    /\ gLast.raised
    /\ ~gLast.platform

\* The outcome of the latest attempt of the most recent connect call.
LastOutcome == IF bOutcomes = <<>> THEN "none" ELSE bOutcomes[Len(bOutcomes)]

\* C15: in the peripheral-style transport a held characteristic always comes
\* from the peripheral handle currently held, and is not kept once a later
\* connect attempt has failed or replaced the link.
C15_CharacteristicFromHeldPeripheral ==
    characteristic # 0
        => /\ peripheral # 0
           /\ characteristic = peripheral
           /\ LastOutcome \in {"none", "ok"}

\* C16: whatever the attempts do, a connect call makes at most retries
\* attempts, returns normally only after a successful attempt, and always
\* ends by returning or raising.
C16_ConnectTerminates ==
    /\ [](Len(bOutcomes) <= retries)
    /\ [](bResult = "returned" => LastOutcome = "ok")
    /\ [](bpc = "idle" => bResult \in {"none", "returned", "BTLEDisconnectError",
                                       "ConnectionError"})
    /\ (bpc # "idle") ~> (bpc = "idle")

\* C16 witness: a connect call ended with an error after retries attempts
\* that mixed transient and non-transient failures.
C16_Witness ==
    /\ bpc = "idle"
    /\ Len(bOutcomes) = retries
    /\ bResult = "ConnectionError"
    /\ \E j, k \in 1..retries : bOutcomes[j] = "transient" /\ bOutcomes[k] = "other"

\* C17: the retry delay is waited only between a failed attempt and the next
\* one: a connect call that fails all its retries attempts has waited
\* retries - 1 times and does not wait after the last of them.
C17_WaitsBetweenAttemptsOnly ==
    (Len(bOutcomes) = retries /\ LastOutcome # "ok")
        => (bWaits = retries - 1 /\ bpc = "idle")

\* C18: every command-line session in which printer.connect() succeeded has
\* called printer.disconnect() by the time the command returns.
C18_SessionDisconnects ==
    (cpc = "done" /\ cConnectOk) => cDisconnects >= 1

\* C19: every error raised inside a command's try block is reported as that
\* error, ends the process with a non-zero status, and the handler raises no
\* error of its own.
C19_ErrorsReportedNonZero ==
    (cpc = "done" /\ cCaught # "none")
        => (cReported = cCaught /\ cExit # "0" /\ cEscaped = "none")

\* C20: on the GATT-client transport, when connect(a) returns a true value
\* the transport is connected to the device a of that call, and connect on a
\* connected transport returns False, makes no platform connect call and
\* leaves the connection as it was.
C20_ConnectedToRequestedAddress ==
    /\ (gLast.op = "connect" /\ gLast.ret = "True")
            => (gConnected /\ gClient = gLast.arg)
    /\ (gLast.op = "connect" /\ gLast.before)
            => (gLast.ret = "False" /\ ~gLast.platform /\ gConnected)

====
